---- MODULE Spec2Model ----
(***************************************************************************)
(* Model of package msg (src/msg/service.go) of skydns: the Service        *)
(* record, the key <-> domain name mapping (Path, PathWithWildcard,        *)
(* Domain), the Group selection, the SRV target stripping of NewSRV and    *)
(* the TXT chunking of NewTXT / split255.                                  *)
(*                                                                         *)
(* Go strings are modelled as sequences of one-character strings, Go       *)
(* slices as sequences together with the backing array they share.         *)
(***************************************************************************)
EXTENDS Integers, Sequences, FiniteSets, TLC

VARIABLES
    \* ---- Group(sx) ----
    sx,        \* the caller's slice (its backing array), as Group sees it now
    sx0,       \* the contents of the caller's slice when Group was called
    slashes,   \* strings.Count(sx[0].Key, "/")
    group,     \* the running group
    count,     \* still scanning the first level
    ret,       \* contents of the slice ret
    aliased,   \* ret shares the backing array of sx (after ret = sx[:i])
    i,         \* index of the range loop (Go index, from 0)
    out,       \* the slice Group returned
    gpc,       \* "call" | "loop" | "done" | "idle"
    \* ---- Path / PathWithWildcard / Domain ----
    name,      \* the domain name given
    pathOut,   \* Path(name)
    domOut,    \* Domain(Path(name))
    wcPath,    \* first result of PathWithWildcard(name)
    wcFlag,    \* second result of PathWithWildcard(name)
    npc,       \* "call" | "path" | "domain" | "done" | "idle"
    \* ---- NewTXT / split255 ----
    Text,      \* Service.Text
    tsx,       \* the slice sx of split255
    p,         \* split255's p
    q,         \* split255's i
    Txt,       \* the Txt field of the TXT record built
    tpc,       \* "call" | "loop" | "split" | "done" | "idle"
    \* ---- NewSRV ----
    Host,        \* Service.Host
    TargetStrip, \* Service.TargetStrip
    Target,      \* Target of the SRV record built
    panicked,    \* the slice expression host[offset:] was out of range
    spc          \* "call" | "done" | "idle"

gvars == <<sx, sx0, slashes, group, count, ret, aliased, i, out, gpc>>
nvars == <<name, pathOut, domOut, wcPath, wcFlag, npc>>
tvars == <<Text, tsx, p, q, Txt, tpc>>
svars == <<Host, TargetStrip, Target, panicked, spc>>
vars == <<gvars, nvars, tvars, svars>>

(***************************************************************************)
(* Bounds of the model.                                                    *)
(***************************************************************************)
MaxServices == 4      \* longest slice given to Group
MaxNameLen == 6       \* longest domain name, in bytes
MaxTextLen == 600     \* longest Service.Text, in bytes
MaxStrip == 5         \* largest Service.TargetStrip

(***************************************************************************)
(* Strings.                                                                *)
(***************************************************************************)
Max(a, b) == IF a >= b THEN a ELSE b

\* s[a:b] of Go (0-based, b exclusive)
Slice(s, a, b) == SubSeq(s, a + 1, b)

\* strings.Count(s, sep) for a one-byte sep
StringsCount(s, sep) == Cardinality({k \in DOMAIN s : s[k] = sep})

\* the strings of length at most n over alphabet A
StringsUpTo(A, n) == UNION {[1..m -> A] : m \in 0..n}

RECURSIVE Concat(_)
\* the concatenation of a sequence of strings
Concat(ss) == IF ss = <<>> THEN <<>> ELSE Head(ss) \o Concat(Tail(ss))

RECURSIVE StringsJoin(_, _)
\* strings.Join(l, sep)
StringsJoin(l, sep) ==
    IF l = <<>> THEN <<>>
    ELSE IF Len(l) = 1 THEN l[1]
    ELSE l[1] \o sep \o StringsJoin(Tail(l), sep)

RECURSIVE SplitFrom(_, _, _)
\* the pieces of s from index from (1-based) on, cut at every sep
SplitFrom(s, sep, from) ==
    LET hits == {k \in from..Len(s) : s[k] = sep} IN
    IF hits = {} THEN <<SubSeq(s, from, Len(s))>>
    ELSE LET k == CHOOSE h \in hits : \A h2 \in hits : h <= h2
         IN <<SubSeq(s, from, k - 1)>> \o SplitFrom(s, sep, k + 1)

\* strings.Split(s, sep) for a one-byte sep
StringsSplit(s, sep) == SplitFrom(s, sep, 1)

(***************************************************************************)
(* Service                                                                 *)
(***************************************************************************)
KeyTop1 == <<"/", "a", "/", "b">>
KeyTop2 == <<"/", "a", "/", "c">>
KeyDeep == <<"/", "a", "/", "b", "/", "c">>
Keys == {KeyTop1, KeyTop2, KeyDeep}
Groups == {"", "x", "y"}

\* the fields of Service that Group reads
Service == [Key : Keys, Group : Groups]

(***************************************************************************)
(* Group                                                                   *)
(***************************************************************************)
\* count && strings.Count(s.Key, "/") == slashes
SameLevel(cnt, key, sl) == cnt /\ StringsCount(key, "/") = sl

\* s.Group != "" && s.Group != group
Disagrees(g, grp) == g # "" /\ g # grp

NoGroupInverted(grp) == grp # ""

\* group == "": we are not doing groups
NoGroup(grp) == grp = ""

SelectedStrict(g, grp) == g = grp

\* s.Group == "" || s.Group == group
Selected(g, grp) == g = "" \/ g = grp

GroupIdle ==
    /\ sx = <<>> /\ sx0 = <<>> /\ slashes = 0 /\ group = "" /\ count = FALSE
    /\ ret = <<>> /\ aliased = FALSE /\ i = 0 /\ out = <<>> /\ gpc = "idle"

GroupInit ==
    /\ sx \in UNION {[1..n -> Service] : n \in 0..MaxServices}
    /\ sx0 = sx
    /\ slashes = 0 /\ group = "" /\ count = FALSE
    /\ ret = <<>> /\ aliased = FALSE /\ i = 0 /\ out = <<>> /\ gpc = "call"

\* entry of Group up to the range loop
GroupEnter ==
    /\ gpc = "call"
    /\ IF Len(sx) = 0
       THEN /\ out' = sx
            /\ gpc' = "done"
            /\ UNCHANGED <<slashes, group, count, ret, aliased, i>>
       ELSE /\ slashes' = StringsCount(sx[1].Key, "/")
            /\ group' = ""
            /\ count' = TRUE
            /\ ret' = <<>>
            /\ aliased' = FALSE
            /\ i' = 0
            /\ gpc' = "loop"
            /\ UNCHANGED out
    /\ UNCHANGED <<sx, sx0>>
    /\ UNCHANGED <<nvars, tvars, svars>>

\* one iteration of "for i, s := range sx"
GroupIter ==
    /\ gpc = "loop"
    /\ i < Len(sx)
    /\ LET s == sx[i + 1]
           top == SameLevel(count, s.Key, slashes)
       IN
       IF top /\ s.Group = ""
       THEN /\ i' = i + 1
            /\ UNCHANGED <<sx, group, count, ret, aliased, out, gpc>>
       ELSE IF top /\ group = ""
       THEN /\ group' = s.Group
            /\ i' = i + 1
            /\ UNCHANGED <<sx, count, ret, aliased, out, gpc>>
       ELSE IF top /\ Disagrees(s.Group, group)
       THEN /\ out' = sx
            /\ gpc' = "done"
            /\ UNCHANGED <<sx, group, count, ret, aliased, i>>
       ELSE IF NoGroup(group)
       THEN /\ out' = sx
            /\ gpc' = "done"
            /\ UNCHANGED <<sx, group, count, ret, aliased, i>>
       ELSE LET seeded == IF count THEN Slice(sx, 0, i) ELSE ret
                shares == count \/ aliased
            IN
            /\ count' = FALSE
            /\ IF Selected(s.Group, group)
               THEN \* append(ret, s): in place while the capacity lasts
                    IF shares /\ Len(seeded) < Len(sx)
                    THEN /\ sx' = [sx EXCEPT ![Len(seeded) + 1] = s]
                         /\ ret' = Append(seeded, s)
                         /\ aliased' = TRUE
                    ELSE /\ ret' = Append(seeded, s)
                         /\ aliased' = FALSE
                         /\ UNCHANGED sx
               ELSE /\ ret' = seeded
                    /\ aliased' = shares
                    /\ UNCHANGED sx
            /\ i' = i + 1
            /\ UNCHANGED <<group, out, gpc>>
    /\ UNCHANGED <<sx0, slashes>>
    /\ UNCHANGED <<nvars, tvars, svars>>

\* the range loop is over: return ret
GroupExit ==
    /\ gpc = "loop"
    /\ i = Len(sx)
    /\ out' = ret
    /\ gpc' = "done"
    /\ UNCHANGED <<sx, sx0, slashes, group, count, ret, aliased, i>>
    /\ UNCHANGED <<nvars, tvars, svars>>

(***************************************************************************)
(* Claims about Group.  They speak of the slice as it was given (sx0), of  *)
(* its entries at the top depth (as many "/" in Key as the first entry)    *)
(* and of the slice returned (out).                                        *)
(***************************************************************************)
Depth(s) == StringsCount(s.Key, "/")
TopIdx == {k \in DOMAIN sx0 : Depth(sx0[k]) = Depth(sx0[1])}
DeepIdx == DOMAIN sx0 \ TopIdx
\* the top-depth entries come first and contiguously
TopFirst == \A k \in TopIdx : \A j \in 1..k : j \in TopIdx
\* the distinct non-empty Group values of the top-depth entries
TopGroups == {sx0[k].Group : k \in TopIdx} \ {""}
TopEntries == SubSeq(sx0, 1, Cardinality(TopIdx))
DeepEntries == SubSeq(sx0, Cardinality(TopIdx) + 1, Len(sx0))
InGroup(s, g) == s.Group = "" \/ s.Group = g
FilterBy(ss, g) == SelectSeq(ss, LAMBDA s : InGroup(s, g))

\* C1: whenever two top-depth entries carry different non-empty Groups,
\* Group returns the slice it was given, unchanged (stated here for the
\* slices whose top-depth entries come first, as the callers order them).
C1_ConflictReturnsInput ==
    (gpc = "done" /\ TopFirst /\ Cardinality(TopGroups) >= 2) => out = sx0

\* C2: top-depth entries first, at least one deeper entry, exactly one
\* non-empty Group g at the top depth: Group returns all top-depth entries in
\* order, followed by the deeper entries whose Group is empty or g, in order.
C2_SeedThenFilter ==
    (/\ gpc = "done"
     /\ sx0 # <<>>
     /\ TopFirst
     /\ DeepIdx # {}
     /\ Cardinality(TopGroups) = 1)
    => LET g == CHOOSE v \in TopGroups : TRUE
       IN out = TopEntries \o FilterBy(DeepEntries, g)

\* C2 happens: a top-depth entry with an empty Group is kept, a deeper entry is
\* kept and a deeper entry of another Group is dropped.
C2_Witness ==
    /\ gpc = "done"
    /\ sx0 # <<>>
    /\ TopFirst
    /\ Cardinality(TopGroups) = 1
    /\ \E k \in TopIdx : sx0[k].Group = ""
    /\ \E k \in DeepIdx : sx0[k].Group \notin ({""} \cup TopGroups)
    /\ \E k \in DeepIdx : sx0[k].Group \in TopGroups
    /\ Len(out) = Len(sx0) - 1

\* C3: a slice of one entry is returned as it is.
C3_SingleEntryReturned ==
    (gpc = "done" /\ Len(sx0) = 1) => out = sx0

\* C4: after Group has returned, every position of the slice it was given
\* holds the Service it held before the call (stated here for the slices
\* whose top-depth entries come first, as the callers order them).
C4_InputUntouched == (gpc = "done" /\ TopFirst) => sx = sx0

\* C10: top-depth entries first and all with an empty Group, at least one
\* deeper entry: Group returns the slice it was given, unchanged.
C10_NoGroupReturnsInput ==
    (/\ gpc = "done"
     /\ sx0 # <<>>
     /\ TopFirst
     /\ DeepIdx # {}
     /\ TopGroups = {})
    => out = sx0

\* C10 happens with deeper entries that do carry a Group.
C10_Witness ==
    /\ gpc = "done"
    /\ sx0 # <<>>
    /\ TopFirst
    /\ TopGroups = {}
    /\ Cardinality(TopIdx) >= 2
    /\ \E k \in DeepIdx : sx0[k].Group # ""
    /\ out = sx0

(***************************************************************************)
(* Domain names (github.com/miekg/dns) and paths (package path), as the    *)
(* functions of service.go use them.  The names of the model hold no       *)
(* backslash, so no byte of them is escaped.                               *)
(***************************************************************************)
NameAlphabet == {"a", "*", "/", "."}
Skydns == <<"/", "s", "k", "y", "d", "n", "s", "/">>
PanicString == <<"panic: slice bounds out of range">>

\* dns.IsFqdn(s)
IsFqdn(s) == Len(s) > 0 /\ s[Len(s)] = "."

\* dns.Fqdn(s)
Fqdn(s) == IF IsFqdn(s) THEN s ELSE s \o <<".">>

\* dns.NextLabel(s, offset): <<i, end>>, the (0-based) index of the start of
\* the next label, and whether the end of the name was reached:
\* for i = offset; i < len(s)-1; i++ { if s[i] == '.' { return i+1, false } }
\* return i+1, true
NextLabel(s, offset) ==
    LET dots == {k \in offset..(Len(s) - 2) : s[k + 1] = "."} IN
    IF dots = {}
    THEN <<Max(offset, Len(s) - 1) + 1, TRUE>>
    ELSE <<(CHOOSE k \in dots : \A k2 \in dots : k <= k2) + 1, FALSE>>

RECURSIVE SplitLoop(_, _, _)
\* the loop of dns.Split: idx grows by the start of every next label
SplitLoop(s, off, idx) ==
    LET nl == NextLabel(s, off) IN
    IF nl[2] THEN idx ELSE SplitLoop(s, nl[1], Append(idx, nl[1]))

\* dns.Split(s): the (0-based) indexes where the labels of s start
DnsSplit(s) == IF s = <<".">> THEN <<>> ELSE SplitLoop(s, 0, <<0>>)

\* dns.SplitDomainName(s): the labels of s
SplitDomainName(s) ==
    IF Len(s) = 0 THEN <<>>
    ELSE LET idx == DnsSplit(s)
             fqdnEnd == IF s[Len(s)] = "." THEN Len(s) - 1 ELSE Len(s)
             begin(k) == IF k = 1 THEN 0 ELSE idx[k]
         IN IF Len(idx) = 0 THEN <<>>
            ELSE [k \in 1..Len(idx) |->
                     IF k < Len(idx) THEN Slice(s, begin(k), idx[k + 1] - 1)
                     ELSE Slice(s, begin(k), fqdnEnd)]

\* for i, j := 0, len(l)-1; i < j; i, j = i+1, j-1 { l[i], l[j] = l[j], l[i] }
Reverse(l) == [k \in 1..Len(l) |-> l[Len(l) + 1 - k]]

RECURSIVE CleanLoop(_, _)
\* path.Clean over the elements of a rooted path: "" and "." are dropped,
\* ".." drops the element before it
CleanLoop(segs, stack) ==
    IF segs = <<>> THEN stack
    ELSE LET e == Head(segs) IN
         IF e = <<>> \/ e = <<".">> THEN CleanLoop(Tail(segs), stack)
         ELSE IF e = <<".", ".">>
         THEN CleanLoop(Tail(segs),
                        IF stack = <<>> THEN stack
                        ELSE SubSeq(stack, 1, Len(stack) - 1))
         ELSE CleanLoop(Tail(segs), Append(stack, e))

\* path.Clean(s) of a rooted path s
PathClean(s) == <<"/">> \o StringsJoin(CleanLoop(StringsSplit(s, "/"), <<>>), <<"/">>)

\* path.Join(elem...), its first element rooted: the non-empty elements
\* joined with "/", then cleaned
PathJoin(elem) ==
    PathClean(StringsJoin(SelectSeq(elem, LAMBDA e : e # <<>>), <<"/">>))

PathUnreversed(s) == PathJoin(<<Skydns>> \o SplitDomainName(s))

\* Path(s)
Path(s) == PathJoin(<<Skydns>> \o Reverse(SplitDomainName(s)))

PathWithWildcardInclusive(s) ==
    LET l == Reverse(SplitDomainName(s))
        stars == {k \in DOMAIN l : l[k] = <<"*">>}
    IN IF stars # {}
       THEN LET k == CHOOSE h \in stars : \A h2 \in stars : h <= h2
            IN [path |-> PathJoin(<<Skydns>> \o SubSeq(l, 1, k)), wild |-> TRUE]
       ELSE [path |-> PathJoin(<<Skydns>> \o l), wild |-> FALSE]

\* PathWithWildcard(s)
PathWithWildcard(s) ==
    LET l == Reverse(SplitDomainName(s))
        stars == {k \in DOMAIN l : l[k] = <<"*">>}
    IN IF stars # {}
       THEN LET k == CHOOSE h \in stars : \A h2 \in stars : h <= h2
            IN [path |-> PathJoin(<<Skydns>> \o SubSeq(l, 1, k - 1)), wild |-> TRUE]
       ELSE [path |-> PathJoin(<<Skydns>> \o l), wild |-> FALSE]

\* Domain(s)
Domain(s) ==
    LET l == StringsSplit(s, "/")
        r == <<l[1]>> \o Reverse(Tail(l))
    IN IF Len(l) < 2 THEN PanicString
       ELSE Fqdn(StringsJoin(SubSeq(r, 2, Len(r) - 1), <<".">>))

\* a name without an empty label: the root, or labels split by single dots
WellFormed(s) ==
    \/ s = <<".">>
    \/ /\ s = <<>> \/ s[1] # "."
       /\ \A k \in 1..(Len(s) - 1) : ~(s[k] = "." /\ s[k + 1] = ".")

Names == {s \in StringsUpTo(NameAlphabet, MaxNameLen) : WellFormed(s)}

NameInit ==
    /\ name \in Names
    /\ pathOut = <<>> /\ domOut = <<>> /\ wcPath = <<>> /\ wcFlag = FALSE
    /\ npc = "call"

\* pathOut := Path(name)
CallPath ==
    /\ npc = "call"
    /\ pathOut' = Path(name)
    /\ npc' = "path"
    /\ UNCHANGED <<name, domOut, wcPath, wcFlag>>
    /\ UNCHANGED <<gvars, tvars, svars>>

\* domOut := Domain(pathOut)
CallDomain ==
    /\ npc = "path"
    /\ domOut' = Domain(pathOut)
    /\ npc' = "domain"
    /\ UNCHANGED <<name, pathOut, wcPath, wcFlag>>
    /\ UNCHANGED <<gvars, tvars, svars>>

\* wcPath, wcFlag := PathWithWildcard(name)
CallPathWithWildcard ==
    /\ npc = "domain"
    /\ LET r == PathWithWildcard(name) IN
       /\ wcPath' = r.path
       /\ wcFlag' = r.wild
    /\ npc' = "done"
    /\ UNCHANGED <<name, pathOut, domOut>>
    /\ UNCHANGED <<gvars, tvars, svars>>

(***************************************************************************)
(* Claims about Path, Domain and PathWithWildcard.  A label is a maximal   *)
(* run of bytes between dots; the claims find the labels of name by the    *)
(* dots around them.                                                       *)
(***************************************************************************)
\* the label of name that starts at a and ends at b (1-based, inclusive)
IsLabel(a, b) ==
    /\ a <= b
    /\ \A k \in a..b : name[k] # "."
    /\ a = 1 \/ name[a - 1] = "."
    /\ b = Len(name) \/ name[b + 1] = "."
\* the positions of the labels of name that are exactly "*"
StarAt == {k \in DOMAIN name : name[k] = "*" /\ IsLabel(k, k)}
NoSlash == \A k \in DOMAIN name : name[k] # "/"
Segments(pth) == StringsSplit(pth, "/")
IsPrefix(a, b) == Len(a) <= Len(b) /\ SubSeq(b, 1, Len(a)) = a

\* C5 as stated: Domain(Path(d)) = d for every fully-qualified name d of
\* non-empty labels none of which is "*".
C5_RoundTripAnyLabel ==
    (npc \in {"domain", "done"} /\ IsFqdn(name) /\ StarAt = {}) => domOut = name

\* C5, amended: Domain(Path(d)) = d for every fully-qualified name d of
\* non-empty labels none of which is "*" and none of which holds a "/".
C5_RoundTrip ==
    (npc \in {"domain", "done"} /\ IsFqdn(name) /\ StarAt = {} /\ NoSlash)
    => domOut = name

\* C5 happens for a name of two different labels.
C5_Witness ==
    /\ npc = "domain"
    /\ NoSlash /\ StarAt = {}
    /\ name = <<"*", "a", ".", "a", ".">>
    /\ domOut = name

\* the name left of name after its root-most "*" label
AfterLastStar ==
    LET m == CHOOSE k \in StarAt : \A k2 \in StarAt : k2 <= k
    IN SubSeq(name, m + 2, Len(name))

\* C8 as stated: the flag is true iff some label is exactly "*"; without one
\* the path is Path(name); with one the path is built from the labels closer
\* to the root than the root-most "*" label, so it has no "*" segment and is
\* a segment-wise prefix of Path(name).
C8_WildcardAnyLabel ==
    npc = "done" =>
        /\ wcFlag <=> (StarAt # {})
        /\ StarAt = {} => wcPath = pathOut
        /\ StarAt # {} =>
              /\ wcPath = Path(AfterLastStar)
              /\ \A k \in DOMAIN Segments(wcPath) : Segments(wcPath)[k] # <<"*">>
              /\ IsPrefix(Segments(wcPath), Segments(pathOut))

\* C8, amended: as C8, but the path is free of "*" segments only when no
\* label of the name holds a "/".
C8_Wildcard ==
    npc = "done" =>
        /\ wcFlag <=> (StarAt # {})
        /\ StarAt = {} => wcPath = pathOut
        /\ StarAt # {} =>
              /\ wcPath = Path(AfterLastStar)
              /\ NoSlash =>
                    \A k \in DOMAIN Segments(wcPath) : Segments(wcPath)[k] # <<"*">>
              /\ IsPrefix(Segments(wcPath), Segments(pathOut))

\* C8 happens for a name with two "*" labels and a label closer to the root.
C8_Witness ==
    /\ npc = "done"
    /\ name = <<"*", ".", "*", ".", "a", ".">>
    /\ wcFlag
    /\ wcPath = <<"/", "s", "k", "y", "d", "n", "s", "/", "a">>
    /\ pathOut = <<"/", "s", "k", "y", "d", "n", "s", "/", "a", "/", "*", "/", "*">>

(***************************************************************************)
(* NewTXT and split255                                                     *)
(***************************************************************************)
ChunkLen == 255

\* the texts of the model: n bytes, each telling its place
Texts == {[k \in 1..n |-> (k + seed) % 256] : n \in 0..MaxTextLen, seed \in {0, 1}}

ChunkFromStart(s, from, to) == Slice(s, 0, to)

\* s[p:i]
Chunk(s, from, to) == Slice(s, from, to)

TxtInit ==
    /\ Text \in Texts
    /\ tsx = <<>> /\ p = 0 /\ q = 0 /\ Txt = <<>>
    /\ tpc = "call"

\* NewTXT calls split255(s.Text): split255 up to its loop
Split255Enter ==
    /\ tpc = "call"
    /\ IF Len(Text) < ChunkLen
       THEN /\ tsx' = <<Text>>
            /\ tpc' = "split"
            /\ UNCHANGED <<p, q>>
       ELSE /\ tsx' = <<>>
            /\ p' = 0
            /\ q' = ChunkLen
            /\ tpc' = "loop"
    /\ UNCHANGED <<Text, Txt>>
    /\ UNCHANGED <<gvars, nvars, svars>>

\* one iteration of the loop of split255
Split255Iter ==
    /\ tpc = "loop"
    /\ IF q <= Len(Text)
       THEN /\ tsx' = Append(tsx, Chunk(Text, p, q))
            /\ p' = p + ChunkLen
            /\ q' = q + ChunkLen
            /\ UNCHANGED tpc
       ELSE /\ tsx' = Append(tsx, Slice(Text, p, Len(Text)))
            /\ tpc' = "split"
            /\ UNCHANGED <<p, q>>
    /\ UNCHANGED <<Text, Txt>>
    /\ UNCHANGED <<gvars, nvars, svars>>

\* NewTXT returns the record, its Txt what split255 returned
NewTXT ==
    /\ tpc = "split"
    /\ Txt' = tsx
    /\ tpc' = "done"
    /\ UNCHANGED <<Text, tsx, p, q>>
    /\ UNCHANGED <<gvars, nvars, svars>>

TxtNext == Split255Enter \/ Split255Iter \/ NewTXT

(***************************************************************************)
(* Claims about split255 and NewTXT.                                       *)
(***************************************************************************)
\* C6: split255 terminates (every turn of its loop adds one chunk, and the
\* chunks added so far never reach past the end of the string, with a step
\* always left to take until it has returned), and it returns
\* substrings of at most 255 bytes whose concatenation is the string given.
C6_Split255 ==
    /\ tpc = "loop" =>
          /\ p = ChunkLen * Len(tsx)
          /\ q = p + ChunkLen
          /\ p <= Len(Text)
    /\ tpc \in {"call", "loop", "split"} => ENABLED TxtNext
    /\ tpc \in {"split", "done"} =>
          /\ \A k \in DOMAIN tsx : Len(tsx[k]) <= ChunkLen
          /\ Concat(tsx) = Text
    /\ tpc = "done" => Txt = tsx

\* C6 happens: a text of 600 bytes gives chunks of 255, 255 and 90 bytes.
C6_Witness ==
    /\ tpc = "done"
    /\ Len(Text) = 600
    /\ Len(Txt) = 3
    /\ Len(Txt[1]) = 255 /\ Len(Txt[2]) = 255 /\ Len(Txt[3]) = 90
    /\ Concat(Txt) = Text

\* C7: NewTXT emits max(1, ceil(len(Text)/255)) strings, none of them empty
\* unless Text is empty.
C7_ChunkCount ==
    tpc = "done" =>
        /\ Len(Txt) = Max(1, (Len(Text) + ChunkLen - 1) \div ChunkLen)
        /\ Text # <<>> => \A k \in DOMAIN Txt : Txt[k] # <<>>

(***************************************************************************)
(* NewSRV                                                                  *)
(***************************************************************************)
RECURSIVE StripLoop(_, _, _, _)
\* for i := 0; i < s.TargetStrip; i++ { offset, end = dns.NextLabel(host, offset) }
\* with n turns left: <<offset, end>>
StripLoop(host, n, offset, end) ==
    IF n <= 0 THEN <<offset, end>>
    ELSE LET nl == NextLabel(host, offset)
         IN StripLoop(host, n - 1, nl[1], nl[2])

\* host[offset:], or the panic of a slice out of range
SliceFrom(host, offset) ==
    IF offset > Len(host)
    THEN [panic |-> TRUE, target |-> <<>>]
    ELSE [panic |-> FALSE, target |-> Slice(host, offset, Len(host))]

NewSRVTargetNoReset(h, strip) ==
    LET host == Fqdn(h)
        oe == StripLoop(host, strip, 0, FALSE)
    IN SliceFrom(host, oe[1])

\* the Target of NewSRV for Service.Host h and Service.TargetStrip strip
NewSRVTarget(h, strip) ==
    LET host == Fqdn(h)
        oe == StripLoop(host, strip, 0, FALSE)
        offset == IF oe[2] THEN 0 ELSE oe[1]
    IN SliceFrom(host, offset)

SrvInit ==
    /\ Host \in Names
    /\ TargetStrip \in -1..MaxStrip
    /\ Target = <<>> /\ panicked = FALSE
    /\ spc = "call"

\* s.NewSRV(name, weight)
CallNewSRV ==
    /\ spc = "call"
    /\ LET r == NewSRVTarget(Host, TargetStrip) IN
       /\ Target' = r.target
       /\ panicked' = r.panic
    /\ spc' = "done"
    /\ UNCHANGED <<Host, TargetStrip>>
    /\ UNCHANGED <<gvars, nvars, tvars>>

SrvNext == CallNewSRV

(***************************************************************************)
(* Claims about NewSRV.                                                    *)
(***************************************************************************)
FqHost == IF Host # <<>> /\ Host[Len(Host)] = "." THEN Host ELSE Host \o <<".">>
\* the number of labels of the fully-qualified host
NumLabels == IF FqHost = <<".">> THEN 0 ELSE StringsCount(FqHost, ".")
\* t is FqHost without its k leftmost labels
Stripped(t, k) ==
    \E m \in 0..Len(FqHost) :
        /\ m = 0 \/ FqHost[m] = "."
        /\ StringsCount(SubSeq(FqHost, 1, m), ".") = k
        /\ t = SubSeq(FqHost, m + 1, Len(FqHost))

\* C9: with TargetStrip = k >= 0 on a fully-qualified host of n labels, the
\* Target is the host without its k leftmost labels when k < n and the whole
\* host when k >= n; it is never empty, ends with a dot, and no slice of the
\* host is out of range.
C9_TargetStrip ==
    (spc = "done" /\ TargetStrip >= 0) =>
        /\ ~panicked
        /\ Target # <<>>
        /\ Target[Len(Target)] = "."
        /\ TargetStrip < NumLabels => Stripped(Target, TargetStrip)
        /\ TargetStrip >= NumLabels => Target = FqHost

\* C9 happens: a label is stripped, and stripping overshoots.
C9_Witness ==
    /\ spc = "done"
    /\ Host = <<"a", ".", "*", ".", "/">>
    /\ \/ TargetStrip = 1 /\ Target = <<"*", ".", "/", ".">>
       \/ TargetStrip = 4 /\ Target = <<"a", ".", "*", ".", "/", ".">>

NameIdle ==
    /\ name = <<>> /\ pathOut = <<>> /\ domOut = <<>> /\ wcPath = <<>>
    /\ wcFlag = FALSE /\ npc = "idle"

TxtIdle ==
    /\ Text = <<>> /\ tsx = <<>> /\ p = 0 /\ q = 0 /\ Txt = <<>>
    /\ tpc = "idle"

SrvIdle ==
    /\ Host = <<>> /\ TargetStrip = 0 /\ Target = <<>> /\ panicked = FALSE
    /\ spc = "idle"

GroupNext == GroupEnter \/ GroupIter \/ GroupExit

InitGroup == GroupInit /\ NameIdle /\ TxtIdle /\ SrvIdle

SpecGroup == InitGroup /\ [][GroupNext]_vars

NameNext == CallPath \/ CallDomain \/ CallPathWithWildcard

InitName == GroupIdle /\ NameInit /\ TxtIdle /\ SrvIdle

SpecName == InitName /\ [][NameNext]_vars

InitTxt == GroupIdle /\ NameIdle /\ TxtInit /\ SrvIdle

SpecTxt == InitTxt /\ [][TxtNext]_vars

InitSrv == GroupIdle /\ NameIdle /\ TxtIdle /\ SrvInit

SpecSrv == InitSrv /\ [][SrvNext]_vars
====
